---- MODULE Spec2Model ----
(***************************************************************************)
(* State-machine model of stm_enc_reader.py: the StmEncReader object (the  *)
(* rotating capture fill(), the bulk capture get_write(), connect() and    *)
(* close()), the TCP byte stream it reads and the files it writes.         *)
(*                                                                         *)
(* Bytes are integers 0..255, byte strings are sequences of bytes.  A file *)
(* is a record [hdr, body]: hdr is the number of File Header bytes at the  *)
(* start of the file, body the raw bytes that follow them.                 *)
(***************************************************************************)
EXTENDS Integers, Sequences, FiniteSets, TLC

(* ------------------------------ bounds -------------------------------- *)

\* Longest stream the peer sends, in 15-byte records.
MaxRecords == 2

\* Largest file_len (records per file) given to the constructor.
MaxFileLen == 2

\* Largest data_num given to get_write.
MaxDataNum == 2

\* The wall clock runs over 0..MaxTime (seconds; one file name per second).
MaxTime == 1

\* Size of the receive buffer in records.  The source has 128; the model
\* scales RECV_BUFLEN down so that the cap on a read request is exercised.
RecvRecords == 1

\* Longest static text given to the header composition, in bytes: with the
\* 16 bytes of the fixed fields it passes the 256 bytes of the header.
MaxTxtLen == 242

(* --------------------------- program constants ------------------------ *)

\* src line 17: RECV_BUFLEN = 128*15, with 128 scaled to RecvRecords.
RECV_BUFLEN == RecvRecords * 15

\* len(HEADER_TXT), src lines 24-30.
HEADER_TXT_LEN == 204

\* src line 22.
VERSION == 2021042901

\* The fixed size of the File Header, src lines 181 and 193.
HEADER_SIZE == 256

\* Length of one packet, src lines 249-255.
PACKET_LEN == 15

\* Python None, as a path value (paths are tuples).
None == << >>

(* ------------------------------ byte strings -------------------------- *)

Min(a, b) == IF a < b THEN a ELSE b

\* Python slice s[i:j] on a byte string, 0-based, j exclusive, clamped.
Slice(s, i, j) == SubSeq(s, Min(i, Len(s)) + 1, Min(j, Len(s)))

\* Python slice s[i:].
SliceFrom(s, i) == Slice(s, i, Len(s))

\* int.from_bytes(b, 'little').
RECURSIVE FromBytesLittle(_)
FromBytesLittle(b) ==
    IF Len(b) = 0 THEN 0 ELSE Head(b) + 256 * FromBytesLittle(Tail(b))

(* ------------------------------- packets ------------------------------ *)

\* header = packet[0], src line 256.
Header(packet) == packet[1]

\* footer = packet[14], src line 261.
Footer(packet) == packet[15]

\* ts_lsb = int.from_bytes(packet[1:5], 'little'), src line 257.
TsLsb(packet) == FromBytesLittle(Slice(packet, 1, 5))

\* ts_msb = int.from_bytes(packet[5:9], 'little'), src line 258.
TsMsb(packet) == FromBytesLittle(Slice(packet, 5, 9))

\* The two words taken the wrong way round: ts_msb + (ts_lsb << 32).
TsSwapped(packet) == [msb |-> TsLsb(packet), lsb |-> TsMsb(packet)]

\* timestamp = ts_lsb + (ts_msb << 32), src line 259.  A timestamp is kept
\* as its two 32-bit words: [msb, lsb] stands for the integer
\* lsb + msb * 2^32, which is beyond the model checker's integers.
Timestamp(packet) == [msb |-> TsMsb(packet), lsb |-> TsLsb(packet)]

\* The integer 0 as a timestamp, src line 103.
TsZero == [msb |-> 0, lsb |-> 0]

\* a < b on timestamps.
TsLess(a, b) == a.msb < b.msb \/ (a.msb = b.msb /\ a.lsb < b.lsb)

\* status = int.from_bytes(packet[9:13], 'little'), src line 260.
Status(packet) == FromBytesLittle(Slice(packet, 9, 13))

\* The test of src line 262.
IsEncoder(packet) == Header(packet) = 153 /\ Footer(packet) = 102

(* ------------------------- the analyzer of fill() ---------------------- *)

\* pnum = int(len(tmpd)/15), src line 252.
Pnum(tmpd) == Len(tmpd) \div PACKET_LEN

\* The packets taken from the back of the buffer: the last pnum * 15 bytes.
PacketsFromBack(tmpd) ==
    [i \in 1..Pnum(tmpd) |->
        Slice(tmpd, (Len(tmpd) % PACKET_LEN) + PACKET_LEN * (i - 1),
                    (Len(tmpd) % PACKET_LEN) + PACKET_LEN * i)]

\* packet = tmpd[15*i:15*(i+1)] for i in range(pnum), src lines 254-255.
Packets(tmpd) ==
    [i \in 1..Pnum(tmpd) |-> Slice(tmpd, PACKET_LEN * (i - 1), PACKET_LEN * i)]

\* tmpr = len(tmpd) % 15; self._carry_over = tmpd[tmpr:], src lines 249-250.
CarryOver(tmpd) == SliceFrom(tmpd, Len(tmpd) % PACKET_LEN)

\* The loop of src lines 254-264 from packet i on: latest is
\* [ts |-> self.ts_latest, state |-> self.state_latest].
RECURSIVE Decode(_, _, _)
Decode(packets, i, latest) ==
    IF i > Len(packets) THEN latest
    ELSE Decode(packets, i + 1,
                IF IsEncoder(packets[i])
                THEN [ts |-> Timestamp(packets[i]), state |-> Status(packets[i])]
                ELSE latest)

(* ------------------------------ the files ------------------------------ *)

\* No file at a path.
NoFile == [exists |-> FALSE, hdr |-> 0, body |-> << >>]

\* The paths path_creator(self._path_base) can return: one per second of
\* the clock, under <base>/YYYY/MM/DD, src lines 59-64.
DatedPath(t) == <<"dated", t>>

\* The default path of get_write: Path('.') joined with the file name of
\* the current second, src line 216.
CwdPath(t) == <<"cwd", t>>

\* The path a caller of get_write passes as its path argument.
ArgPath == <<"arg", 0>>

Times == 0..MaxTime

Paths ==
    {DatedPath(t) : t \in Times} \cup {CwdPath(t) : t \in Times} \cup {ArgPath}

\* The header _write_header composes before padding: the 4-byte tag, the
\* version, the seconds, the microseconds and HEADER_TXT, src lines 180-192.
HeaderFieldsLen == 4 + 4 + 4 + 4 + HEADER_TXT_LEN

\* open(path, 'wb'): the file exists and is empty, src lines 178 and 220.
OpenWB(files, path) ==
    [files EXCEPT ![path] = [exists |-> TRUE, hdr |-> 0, body |-> << >>]]

\* The file opened and closed with no header written.
WriteNoHeader(files, path) == OpenWB(files, path)

\* _write_header(path), src lines 175-198, when the header fits: the file is
\* truncated and holds the header padded with spaces to 256 bytes.
WriteHeader(files, path) ==
    [OpenWB(files, path) EXCEPT ![path].hdr =
        HeaderFieldsLen + (HEADER_SIZE - HeaderFieldsLen)]

\* n.to_bytes(4, 'little', signed=False), for 0 <= n < 2^31.
ToBytes4(n) == [i \in 1..4 |-> (n \div (256 ^ (i - 1))) % 256]

\* b'256\n', src line 181.
Tag == <<50, 53, 54, 10>>

\* b' ' * res, src line 196: empty when res is not positive.
Spaces(res) == [i \in 1..res |-> 32]

\* A static text of n bytes.
Text(n) == [i \in 1..n |-> 35]

\* The microseconds of a clock reading, src line 191.
Micros == {0, 999999}

\* The test that no header is too long.
TooLongNever(res) == FALSE

\* if res < 0, src line 194.
TooLong(res) == res < 0

\* The header _write_header composes at second sec, microsecond usec, with
\* the static text txt, src lines 180-196: raised when 'HEADER TOO LONG' is
\* raised, else written is what file_desc.write is given.
ComposeHeader(sec, usec, txt) ==
    LET header == Tag \o ToBytes4(VERSION) \o ToBytes4(sec) \o ToBytes4(usec)
                      \o txt
        res    == HEADER_SIZE - Len(header)
    IN  IF TooLong(res)
        THEN [raised |-> TRUE, written |-> << >>]
        ELSE [raised |-> FALSE, written |-> header \o Spaces(res)]

\* _write_header(path) with static text txt, src lines 175-198: the file is
\* opened 'wb' first, and then holds what was written, if anything.
WriteHeaderOf(files, path, sec, usec, txt) ==
    [OpenWB(files, path) EXCEPT ![path].hdr =
        Len(ComposeHeader(sec, usec, txt).written)]

\* The data written at the start of the body, in the place of what was there.
WriteOver(files, path, data) ==
    [files EXCEPT ![path] = [exists |-> TRUE, hdr |-> @.hdr, body |-> data]]

\* open(path, 'ab') and file_desc.write(data), src lines 241-242.
AppendFile(files, path, data) ==
    [files EXCEPT ![path] =
        [exists |-> TRUE, hdr |-> @.hdr, body |-> @.body \o data]]

(* ------------------------------ the stream ----------------------------- *)

\* The records the peer may send.  Payload bytes stay clear of the marker
\* bytes 0x99 = 153, 0x66 = 102, 0x55 = 85 and 0xAA = 170.
EncA == <<153, 1,0,0,0, 0,0,0,0, 7,0,0,0, 0, 102>>
EncB == <<153, 2,1,0,0, 3,0,0,0, 9,1,0,0, 0, 102>>
Irig == <<85, 4,0,0,0, 0,0,0,0, 5,0,0,0, 0, 170>>
Bad  == <<153, 5,0,0,0, 0,0,0,0, 6,0,0,0, 0, 170>>

RecordKinds == {EncA, EncB, Irig, Bad}

\* get_write decodes nothing: its stream is n records, Encoder and IRIG in
\* turn.
LoopStream(n) == [i \in 1..n |-> IF i % 2 = 1 THEN EncA ELSE Irig]

RECURSIVE Concat(_)
Concat(seqs) == IF Len(seqs) = 0 THEN << >> ELSE Head(seqs) \o Concat(Tail(seqs))

\* Every stream of at most MaxRecords records.
Streams ==
    {Concat(rs) : rs \in UNION {[1..n -> RecordKinds] : n \in 0..MaxRecords}}

\* The runs of the model: who drives the reader, the stream the peer sends
\* and the file_len given to the constructor (not used by get_write).
Configs ==
    {[driver |-> "main", stream |-> s, file_len |-> l] :
        s \in Streams, l \in 1..MaxFileLen}
    \cup
    {[driver |-> "loop", stream |-> Concat(LoopStream(n)), file_len |-> MaxFileLen] :
        n \in 0..MaxRecords}

(* ------------------------------- the state ----------------------------- *)

VARIABLES
    stream,         \* the bytes the peer sends over the connection, in order
    pos,            \* how many of them the reader has received
    peer_closed,    \* the peer has closed the connection
    now,            \* the wall clock, in seconds
    fs,             \* the file system: path -> file
    sock,           \* self._client: "new", "connected" or "closed"
    _connected,     \* self._connected
    _current_path,  \* self._current_path
    _file_len,      \* self._file_len
    _res,           \* self._res
    _carry_over,    \* self._carry_over
    ts_latest,      \* self.ts_latest
    state_latest,   \* self.state_latest
    pc,             \* "idle", or "get_write" inside the read loop of get_write
    rest,           \* the local rest of get_write
    gw_path,        \* the local path of get_write
    driver,         \* who uses the reader: "main" or "loop"
    op,             \* history: the last event, and how it ended
    decoded,        \* history: the packets the last fill() examined
    created,        \* history: the paths fill() created, in order
    gw_num,         \* history: data_num of the last get_write
    gw_start,       \* history: pos when the last get_write was called
    header_txt      \* the module's HEADER_TXT

vars == <<stream, pos, peer_closed, now, fs, sock, _connected, _current_path,
          _file_len, _res, _carry_over, ts_latest, state_latest, pc, rest,
          gw_path, driver, op, decoded, created, gw_num, gw_start,
          header_txt>>

net == <<stream, peer_closed>>
filler == <<_current_path, _res, _carry_over, ts_latest, state_latest>>
gw == <<rest, gw_path, gw_num, gw_start>>
hist == <<decoded, created>>

\* StmEncReader.__init__, src lines 72-104, with the peer's stream and the
\* file_len argument as inputs.  The reader is driven either by main(), src
\* lines 267-278, which connects and calls fill() for ever, or by a bulk
\* capture as in loop(), src lines 147-173, which connects and calls
\* get_write() for ever.  main() calls fill() on the connected socket only;
\* both may end with close(), and the bulk capture may go on after it.
Init ==
    /\ \E c \in Configs :
        /\ driver = c.driver
        /\ stream = c.stream
        /\ _file_len = c.file_len
    /\ pos = 0
    /\ peer_closed = FALSE
    /\ now = 0
    /\ fs = [p \in Paths |-> NoFile]
    /\ sock = "new"
    /\ _connected = FALSE
    /\ _current_path = None
    /\ _res = _file_len * 15
    /\ _carry_over = << >>
    /\ ts_latest = TsZero
    /\ state_latest = 0
    /\ pc = "idle"
    /\ rest = 0
    /\ gw_path = None
    /\ op = "init"
    /\ decoded = << >>
    /\ created = << >>
    /\ gw_num = 0
    /\ gw_start = 0
    /\ header_txt = Text(HEADER_TXT_LEN)

(* ----------------------------- the socket ------------------------------ *)

\* The lengths self._client.recv(n) can return on a connected socket: at
\* least one and at most n of the bytes not yet received; nothing once the
\* peer has closed and all was received; it blocks otherwise.
RecvLens(n) ==
    IF Len(stream) - pos > 0 THEN 1..Min(n, Len(stream) - pos)
    ELSE IF peer_closed THEN {0} ELSE {}

\* The next n bytes of the stream.
Data(n) == Slice(stream, pos, pos + n)

\* The peer closes the connection after it has sent its stream.
PeerClose ==
    /\ ~peer_closed
    /\ pos = Len(stream)
    /\ peer_closed' = TRUE
    /\ op' = "peer_close"
    /\ UNCHANGED <<stream, pos, now, fs, sock, _connected, _file_len, header_txt, pc, driver>>
    /\ UNCHANGED <<filler, gw, hist>>

\* _connect and connect, src lines 118-128.
Connect ==
    /\ pc = "idle"
    /\ IF _connected
       THEN UNCHANGED <<sock, _connected, op>>
       ELSE sock' = "connected" /\ _connected' = TRUE /\ op' = "connect"
    /\ UNCHANGED <<pos, now, fs, _file_len, header_txt, pc, driver>>
    /\ UNCHANGED <<net, filler, gw, hist>>

\* _close and close, src lines 130-139.
Close ==
    /\ pc = "idle"
    /\ sock' = IF _connected THEN "closed" ELSE sock
    /\ _current_path' = None
    /\ op' = "close"
    /\ UNCHANGED <<pos, now, fs, _connected, _file_len, header_txt, pc, driver>>
    /\ UNCHANGED <<_res, _carry_over, ts_latest, state_latest>>
    /\ UNCHANGED <<net, gw, hist>>

(* -------------------------------- fill() ------------------------------- *)

\* The clock readings open to a call that names a file after the current
\* second: the second of the last reading, or a later one.
Clock == {t \in Times : t = now \/ t = now + 1}

\* fill() reads the clock only when no file is current, src lines 231-232.
FillTimes == IF _current_path = None THEN Clock ELSE {now}

\* path_creator raises 'Filename collision', src lines 65-66, called from
\* src line 232.
Collides(t) == _current_path = None /\ fs[DatedPath(t)].exists

\* The initialization of fill(), src lines 231-234, at clock reading t.
FillInit(t) ==
    IF _current_path = None
    THEN [path    |-> DatedPath(t),
          files   |-> WriteHeader(fs, DatedPath(t)),
          res     |-> _file_len * 15,
          created |-> Append(created, DatedPath(t))]
    ELSE [path |-> _current_path, files |-> fs, res |-> _res,
          created |-> created]

\* A read request for the whole buffer, whatever capacity remains.
RecvNumUncapped(res) == RECV_BUFLEN

\* recv_num = RECV_BUFLEN if (self._res > RECV_BUFLEN) else self._res,
\* src line 237.
RecvNum(res) == IF res > RECV_BUFLEN THEN RECV_BUFLEN ELSE res

\* The whole file as the threshold: a file is never given up.
ExhaustedNever(res) == res < 0

\* No threshold: the file is given up after every read.
ExhaustedAlways(res) == TRUE

\* if self._res <= 0, src line 244.
Exhausted(res) == res <= 0

\* fill() when path_creator raises: nothing but the clock has changed.
FillCollision ==
    /\ pc = "idle"
    /\ driver = "main"
    /\ sock = "connected"
    /\ \E t \in FillTimes :
        /\ Collides(t)
        /\ now' = t
    /\ op' = "fill_collision"
    /\ UNCHANGED <<pos, fs, sock, _connected, _file_len, header_txt, pc, driver>>
    /\ UNCHANGED <<net, filler, gw, hist>>

\* fill() left by KeyboardInterrupt while recv waits for data, src lines
\* 238 and 277.  The initialization of src lines 231-234 has taken place.
FillRaises ==
    /\ pc = "idle"
    /\ driver = "main"
    /\ sock = "connected"
    /\ \E t \in FillTimes :
        /\ ~Collides(t)
        /\ RecvLens(RecvNum(FillInit(t).res)) = {}
        /\ now' = t
        /\ fs' = FillInit(t).files
        /\ _current_path' = FillInit(t).path
        /\ _res' = FillInit(t).res
        /\ created' = FillInit(t).created
    /\ op' = "fill_raised"
    /\ UNCHANGED <<pos, sock, _connected, _file_len, header_txt, pc, driver>>
    /\ UNCHANGED <<_carry_over, ts_latest, state_latest>>
    /\ UNCHANGED decoded
    /\ UNCHANGED <<net, gw>>

\* fill() when recv returns data, src lines 227-264.
FillReads ==
    /\ pc = "idle"
    /\ driver = "main"
    /\ sock = "connected"
    /\ \E t \in FillTimes :
        /\ ~Collides(t)
        /\ \E n \in RecvLens(RecvNum(FillInit(t).res)) :
            LET o      == FillInit(t)
                data   == Data(n)
                res1   == o.res - Len(data)
                tmpd   == _carry_over \o data
                latest == Decode(Packets(tmpd), 1,
                                 [ts |-> ts_latest, state |-> state_latest])
            IN  /\ now' = t
                /\ pos' = pos + n
                /\ _res' = res1
                /\ fs' = AppendFile(o.files, o.path, data)
                /\ _current_path' = IF Exhausted(res1) THEN None ELSE o.path
                /\ _carry_over' = CarryOver(tmpd)
                /\ ts_latest' = latest.ts
                /\ state_latest' = latest.state
                /\ created' = o.created
                /\ decoded' = Packets(tmpd)
    /\ op' = "fill"
    /\ UNCHANGED <<sock, _connected, _file_len, header_txt, pc, driver>>
    /\ UNCHANGED <<net, gw>>

Fill == FillCollision \/ FillRaises \/ FillReads

(* ------------------------------ get_write() ---------------------------- *)

\* A read request for the whole buffer, whatever is outstanding.
GwRecvNumUncapped(r) == RECV_BUFLEN

\* recv_num = RECV_BUFLEN if (rest > RECV_BUFLEN) else rest, src line 222.
GwRecvNum(r) == IF r > RECV_BUFLEN THEN RECV_BUFLEN ELSE r

\* The file of get_write once the read loop is entered: _write_header(path)
\* of src line 218, then open(path, 'wb') of src line 220.
GwOpen(files, path) == OpenWB(WriteHeader(files, path), path)

\* The test that nothing is connected.
NotConnectedNever == FALSE

\* if not self._connected, src line 210.
NotConnected == ~_connected

\* get_write called while not connected, src lines 210-211.
GetWriteNotConnected ==
    /\ pc = "idle"
    /\ driver = "loop"
    /\ NotConnected
    /\ op' = "get_write_not_connected"
    /\ UNCHANGED <<pos, now, fs, sock, _connected, _file_len, header_txt, pc, driver>>
    /\ UNCHANGED <<net, filler, gw, hist>>

\* get_write(data_num, path) up to its first recv, src lines 210-221; path
\* None takes the default of src lines 215-216.
GetWriteBegin ==
    /\ pc = "idle"
    /\ driver = "loop"
    /\ ~NotConnected
    /\ \E data_num \in 0..MaxDataNum, t \in Clock, p \in {ArgPath, None} :
        LET path == IF p = None THEN CwdPath(t) ELSE p
        IN  /\ now' = t
            /\ fs' = GwOpen(fs, path)
            /\ gw_path' = path
            /\ rest' = 15 * data_num
            /\ gw_num' = data_num
            /\ gw_start' = pos
            /\ pc' = IF 15 * data_num > 0 THEN "get_write" ELSE "idle"
            /\ op' = IF 15 * data_num > 0 THEN "get_write_begin"
                     ELSE "get_write_returned"
    /\ UNCHANGED <<pos, sock, _connected, _file_len, header_txt, driver>>
    /\ UNCHANGED <<net, filler, hist>>

\* One turn of the read loop of get_write, src lines 221-225.
GetWriteReads ==
    /\ pc = "get_write"
    /\ sock = "connected"
    /\ \E n \in RecvLens(GwRecvNum(rest)) :
        LET data == Data(n)
        IN  /\ pos' = pos + n
            /\ fs' = AppendFile(fs, gw_path, data)
            /\ rest' = rest - Len(data)
            /\ pc' = IF rest - Len(data) > 0 THEN "get_write" ELSE "idle"
            /\ op' = IF rest - Len(data) > 0 THEN "get_write_read"
                     ELSE "get_write_returned"
    /\ UNCHANGED <<now, sock, _connected, _file_len, header_txt, gw_path, gw_num, gw_start, driver>>
    /\ UNCHANGED <<net, filler, hist>>

\* get_write left by an exception of recv: OSError on a closed socket,
\* KeyboardInterrupt while recv waits for data.
GetWriteRaises ==
    /\ pc = "get_write"
    /\ \/ sock # "connected"
       \/ RecvLens(GwRecvNum(rest)) = {}
    /\ pc' = "idle"
    /\ op' = "get_write_raised"
    /\ UNCHANGED <<pos, now, fs, sock, _connected, _file_len, header_txt, driver>>
    /\ UNCHANGED <<net, filler, gw, hist>>

GetWrite ==
    GetWriteNotConnected \/ GetWriteBegin \/ GetWriteReads \/ GetWriteRaises

(* --------------------------- the specification ------------------------- *)

Next == PeerClose \/ Connect \/ Close \/ Fill \/ GetWrite

Spec == Init /\ [][Next]_vars

\* The scheduling of the two read loops: a loop that can receive goes on
\* receiving.  Nothing makes the peer close or the user interrupt.
FairSpec == Spec /\ WF_vars(FillReads) /\ WF_vars(GetWriteReads)

(* ------------------------ the header on its own ------------------------ *)

\* _write_header called on its own, for every static text of at most
\* MaxTxtLen bytes in the place of HEADER_TXT; nothing is connected.
HeaderInit ==
    /\ header_txt \in {Text(n) : n \in 0..MaxTxtLen}
    /\ driver = "header"
    /\ stream = << >>
    /\ _file_len = 1
    /\ pos = 0
    /\ peer_closed = FALSE
    /\ now = 0
    /\ fs = [p \in Paths |-> NoFile]
    /\ sock = "new"
    /\ _connected = FALSE
    /\ _current_path = None
    /\ _res = _file_len * 15
    /\ _carry_over = << >>
    /\ ts_latest = TsZero
    /\ state_latest = 0
    /\ pc = "idle"
    /\ rest = 0
    /\ gw_path = None
    /\ op = "init"
    /\ decoded = << >>
    /\ created = << >>
    /\ gw_num = 0
    /\ gw_start = 0

\* _write_header(path) that returns, src lines 175-198, on the path of the
\* current second.
WriteHeaderReturns ==
    /\ \E t \in Clock, usec \in Micros :
        /\ ~ComposeHeader(t, usec, header_txt).raised
        /\ now' = t
        /\ fs' = WriteHeaderOf(fs, DatedPath(t), t, usec, header_txt)
    /\ op' = "write_header"
    /\ UNCHANGED <<pos, sock, _connected, _file_len, header_txt, pc, driver>>
    /\ UNCHANGED <<net, filler, gw, hist>>

\* _write_header(path) that raises 'HEADER TOO LONG', src lines 194-195: the
\* file was opened at src line 178 and nothing is written to it.
WriteHeaderRaises ==
    /\ \E t \in Clock, usec \in Micros :
        /\ ComposeHeader(t, usec, header_txt).raised
        /\ now' = t
        /\ fs' = WriteHeaderOf(fs, DatedPath(t), t, usec, header_txt)
    /\ op' = "write_header_raised"
    /\ UNCHANGED <<pos, sock, _connected, _file_len, header_txt, pc, driver>>
    /\ UNCHANGED <<net, filler, gw, hist>>

HeaderNext == WriteHeaderReturns \/ WriteHeaderRaises

HeaderSpec == HeaderInit /\ [][HeaderNext]_vars

(* ------------------------------ properties ----------------------------- *)

\* The bytes received in a step.
Received == Slice(stream, pos, pos')

\* The bytes received up to n, all of them by fill() when main() drives.
Upto(n) == Slice(stream, 0, n)

\* The buffer a fill() step decodes: carry-over, then the chunk received.
Buffer == _carry_over \o Received

\* Bytes k..k+3 of b (1-based) as a little-endian unsigned integer.
WordLE(b, k) == b[k] + 256 * b[k + 1] + 65536 * b[k + 2] + 16777216 * b[k + 3]

\* Record number i (from 1) of the stream.
StreamRecord(i) == SubSeq(stream, 15 * (i - 1) + 1, 15 * i)

\* The two words of the timestamp of a record.
RecordTs(r) == [msb |-> WordLE(r, 6), lsb |-> WordLE(r, 2)]

\* A record with the Encoder markers.
WellFormed(r) == r[1] = 153 /\ r[15] = 102

\* C1: chunk-boundary independence.  Whatever the chunks, the packets the
\* fill() calls decode, one call after the other, are the packets decoded
\* from the same bytes arriving as one chunk, and the carry-over is the same:
\* each call decodes the next packets of the bytes received so far, and
\* leaves the carry-over of one pass over them.
C1_ChunkBoundaryIndependence ==
    [][op' = "fill" =>
        /\ decoded' = SubSeq(Packets(Upto(pos')),
                             Pnum(Upto(pos)) + 1, Pnum(Upto(pos')))
        /\ _carry_over' = CarryOver(Upto(pos'))]_vars

\* C2: after every fill() the carry-over is the trailing (length mod 15)
\* bytes of carry-over + chunk, and so is shorter than 15 bytes.
C2_CarryOverIsRemainder ==
    [][op' = "fill" =>
        /\ _carry_over' = SubSeq(Buffer, Len(Buffer) - (Len(Buffer) % 15) + 1,
                                 Len(Buffer))
        /\ Len(_carry_over') < 15]_vars

\* C3: conservation.  In every fill(), the carry-over before plus the chunk
\* is 15 times the packets decoded plus the carry-over after.
C3_Conservation ==
    [][op' = "fill" =>
        Len(_carry_over) + Len(Received)
            = 15 * Len(decoded') + Len(_carry_over')]_vars

\* The stream is made of well-formed Encoder records of strictly increasing
\* timestamps.
IncreasingEncoderStream ==
    /\ Len(stream) % 15 = 0
    /\ \A i \in 1..(Len(stream) \div 15) : WellFormed(StreamRecord(i))
    /\ \A i \in 1..(Len(stream) \div 15) : \A j \in 1..(Len(stream) \div 15) :
        i < j => TsLess(RecordTs(StreamRecord(i)), RecordTs(StreamRecord(j)))

\* C4: latest state under fragmentation.  On a stream of well-formed Encoder
\* records of increasing timestamps, once fill() has received whole records
\* ts_latest is the timestamp of the last record fully received, whatever
\* the chunks.
C4_LatestUnderFragmentation ==
    (driver = "main" /\ IncreasingEncoderStream /\ pos >= 15)
        => ts_latest = RecordTs(StreamRecord(pos \div 15))

\* Every file fill() has created holds its 256-byte header and exactly
\* file_len records.
CreatedFilesFull ==
    \A i \in 1..Len(created) :
        /\ fs[created[i]].exists
        /\ fs[created[i]].hdr = 256
        /\ Len(fs[created[i]].body) = 15 * _file_len

IsWord(x) == x >= 0 /\ x \div 65536 < 65536

\* C6: Encoder decoding.  When fill() decodes a packet with byte 0 = 0x99
\* and byte 14 = 0x66 (the last such packet of the pass), ts_latest becomes
\* ts_lsb + ts_msb * 2^32 with ts_lsb bytes 1-4 and ts_msb bytes 5-8 as
\* little-endian unsigned integers, and state_latest is overwritten in the
\* same step with bytes 9-12.
C6_EncoderDecoding ==
    [][op' = "fill" =>
        \A i \in 1..Len(decoded') :
            (/\ WellFormed(decoded'[i])
             /\ \A j \in (i + 1)..Len(decoded') : ~WellFormed(decoded'[j]))
            => /\ ts_latest' = RecordTs(decoded'[i])
               /\ IsWord(ts_latest'.lsb) /\ IsWord(ts_latest'.msb)
               /\ state_latest' = WordLE(decoded'[i], 10)]_vars

\* fill() has just decoded the Encoder record of timestamp 258 + 3 * 2^32.
C6_Witness ==
    /\ op = "fill"
    /\ Len(decoded) >= 1
    /\ decoded[Len(decoded)] = EncB
    /\ ts_latest = [msb |-> 3, lsb |-> 258]
    /\ state_latest = 265

\* The decoder state changes only in a fill() that decodes an Encoder
\* packet: not in a fill() whose packets are all of another kind, not at a
\* rotation, not in close() or any other operation.
DecoderStateFrame ==
    [][(\/ op' # "fill"
        \/ \A i \in 1..Len(decoded') : ~WellFormed(decoded'[i]))
       => (ts_latest' = ts_latest /\ state_latest' = state_latest)]_vars

\* C7: decoder state changes only on Encoder records.  A packet that is not
\* an Encoder record is consumed (its 15 bytes leave the buffer: what stays
\* is what follows the packets decoded) and changes neither ts_latest nor
\* state_latest; rotation and close() do not reset them.
C7_OnlyEncoderChangesState ==
    [][/\ (\/ op' # "fill"
           \/ \A i \in 1..Len(decoded') : ~WellFormed(decoded'[i]))
          => (ts_latest' = ts_latest /\ state_latest' = state_latest)
       /\ (op' = "fill" /\ \E i \in 1..Len(decoded') : ~WellFormed(decoded'[i]))
          => _carry_over' = SubSeq(Buffer, 15 * Len(decoded') + 1, Len(Buffer))
      ]_vars

\* C8: bulk-capture file layout.  When get_write returns, the file is the
\* 256-byte header followed by the data_num * 15 bytes received.
C8_BulkFileLayout ==
    op = "get_write_returned"
        => /\ fs[gw_path].exists
           /\ fs[gw_path].hdr = 256
           /\ fs[gw_path].body = Slice(stream, gw_start, gw_start + 15 * gw_num)

\* C9: bulk-capture exact count.  get_write receives exactly data_num * 15
\* bytes, never more, and returns as soon as it has them: inside the loop
\* fewer have been received and rest is what is outstanding.
C9_BulkExactCount ==
    /\ pc = "get_write"
        => /\ pos - gw_start < 15 * gw_num
           /\ rest = 15 * gw_num - (pos - gw_start)
    /\ op = "get_write_returned" => pos - gw_start = 15 * gw_num

\* get_write(2) has returned: 30 bytes, in at least two reads of at most
\* RECV_BUFLEN bytes.
C9_Witness ==
    /\ op = "get_write_returned"
    /\ gw_num = 2
    /\ RECV_BUFLEN < 30
    /\ pos - gw_start = 30

\* C10: end-of-stream detection.  Once the peer has closed the connection,
\* the read loop of get_write stops.
C10_EndOfStreamStops ==
    [](peer_closed /\ pc = "get_write" => <>(pc = "idle"))

\* File f2 is file f1 with bytes appended at most: nothing of f1 was
\* truncated or overwritten.
Extends(f2, f1) ==
    /\ f2.exists
    /\ f2.hdr = f1.hdr
    /\ Len(f2.body) >= Len(f1.body)
    /\ SubSeq(f2.body, 1, Len(f1.body)) = f1.body

\* C11: no overwrite on collision.  No operation truncates or overwrites a
\* file that exists: every file that exists keeps its header and its body,
\* with bytes appended at most.  A fill() that fails on a collision has
\* received no byte and leaves the files, the session, the remaining
\* capacity, the carry-over and the decoder state as they were.
C11_NoOverwriteOnCollision ==
    [][/\ \A p \in Paths : fs[p].exists => Extends(fs'[p], fs[p])
       /\ op' = "fill_collision" => UNCHANGED <<pos, fs, filler>>
      ]_vars

\* The ways a call of get_write can end its first step.
GetWriteCalled ==
    {"get_write_not_connected", "get_write_begin", "get_write_returned"}

\* C12: not-connected error.  get_write called on a reader that is not
\* connected raises the not-connected error at once: it creates and writes
\* no file, receives nothing, and leaves all the state of the reader as it
\* was.
C12_NotConnectedError ==
    [][(pc = "idle" /\ ~_connected /\ op' \in GetWriteCalled) =>
        /\ op' = "get_write_not_connected"
        /\ UNCHANGED <<pos, fs, sock, _connected, _file_len, filler, gw, pc>>
      ]_vars

\* get_write has raised the not-connected error on a reader that was never
\* connected: there is no file and nothing was received.
C12_Witness ==
    /\ op = "get_write_not_connected"
    /\ ~_connected
    /\ sock = "new"
    /\ pos = 0
    /\ \A p \in Paths : ~fs[p].exists

\* C13: header fixed size.  When _write_header returns, the file holds a
\* header of exactly 256 bytes: the 4-byte tag, the version, the seconds and
\* the microseconds as 4-byte little-endian integers, the static text, and
\* spaces up to 256 bytes.  When the 16 bytes of the fixed fields and the
\* static text are more than 256 bytes, _write_header fails, and no header,
\* longer or cut, is in the file.
C13_HeaderFixedSize ==
    /\ op = "write_header" =>
        /\ 16 + Len(header_txt) <= 256
        /\ fs[DatedPath(now)].exists
        /\ fs[DatedPath(now)].hdr = 256
        /\ \A usec \in Micros :
            LET h == ComposeHeader(now, usec, header_txt).written
            IN  /\ Len(h) = 256
                /\ SubSeq(h, 1, 4) = <<50, 53, 54, 10>>
                /\ WordLE(h, 5) = 2021042901
                /\ WordLE(h, 9) = now
                /\ WordLE(h, 13) = usec
                /\ SubSeq(h, 17, 16 + Len(header_txt)) = header_txt
                /\ \A i \in (17 + Len(header_txt))..256 : h[i] = 32
    /\ op = "write_header_raised" =>
        /\ 16 + Len(header_txt) > 256
        /\ fs[DatedPath(now)].hdr = 0
        /\ fs[DatedPath(now)].body = << >>
    /\ 16 + Len(header_txt) > 256 =>
        \A p \in Paths : fs[p].hdr = 0

\* _write_header has written the header of the module's HEADER_TXT, 204
\* bytes: 256 bytes, 36 of them padding.
C13_Witness ==
    /\ op = "write_header"
    /\ Len(header_txt) = 204
    /\ fs[DatedPath(now)].hdr = 256
    /\ now = 1

\* The files other than p are as they were.
OthersUnchanged(p) == \A q \in Paths \ {p} : fs'[q] = fs[q]

\* C14: capacity invariant.  In every state of the rotating capture
\* 0 <= _res <= 15 * file_len, the body of the current file has
\* 15 * file_len - _res bytes, and no file fill() created has more than
\* file_len records; the bytes a fill() receives all go to the end of one
\* file, the current one, and do not exceed the capacity it had left.
C14_CapacityInvariant ==
    /\ [](driver = "main" =>
            /\ 0 <= _res /\ _res <= 15 * _file_len
            /\ _current_path # None =>
                Len(fs[_current_path].body) = 15 * _file_len - _res
            /\ \A i \in 1..Len(created) :
                Len(fs[created[i]].body) <= 15 * _file_len)
    /\ [][op' = "fill" =>
            LET cur == created'[Len(created')]
            IN  /\ _current_path' \in {cur, None}
                /\ Len(Received) <= (IF _current_path = None
                                     THEN 15 * _file_len ELSE _res)
                /\ fs'[cur].body =
                     (IF _current_path = None THEN << >> ELSE fs[cur].body)
                        \o Received
                /\ OthersUnchanged(cur)]_vars

\* fill() has filled a file of two records to the last byte, in reads that
\* were cut to the capacity left, and a second file is open.
C14_Witness ==
    /\ op = "fill"
    /\ _file_len = 1
    /\ Len(created) = 2
    /\ Len(fs[created[1]].body) = 15
    /\ _current_path = created[2]
    /\ _res = 14
    /\ Len(fs[created[2]].body) = 1

\* C15: rotation lifecycle.  When a fill() call returns, no file is current
\* if and only if the remaining capacity is <= 0; whenever a file is current
\* the remaining capacity is strictly positive; and a fill() called when no
\* file is current creates a new file, with its header, and counts what it
\* receives against the full capacity 15 * file_len.
C15_RotationLifecycle ==
    /\ [](driver = "main" /\ _current_path # None => _res > 0)
    /\ [][/\ op' = "fill" => (_current_path' = None <=> _res' <= 0)
          /\ (op' \in {"fill", "fill_raised"} /\ _current_path = None) =>
                /\ Len(created') = Len(created) + 1
                /\ ~fs[created'[Len(created')]].exists
                /\ fs'[created'[Len(created')]].hdr = 256
                /\ fs'[created'[Len(created')]].body = Received
                /\ _res' = 15 * _file_len - Len(Received)
          /\ (op' \in {"fill", "fill_raised"} /\ _current_path # None) =>
                /\ created' = created
                /\ _res' = _res - Len(Received)
         ]_vars

\* A file of one record was filled and given up, the next fill() created a
\* second file, and one byte of capacity is left in it.
C15_Witness ==
    /\ op = "fill"
    /\ _file_len = 1
    /\ pos = 29
    /\ Len(created) = 2
    /\ _current_path = created[2]
    /\ _res = 1

\* C16: header before body in the rotating capture.  Every file fill() has
\* created starts with its complete 256-byte header from the step that
\* created it, before any body byte; the file that is current is the last
\* one created; a step never rewrites the header of a file that exists and
\* only appends to its body; and a fill() interrupted while it waits for
\* data leaves the current file with its header and the body it had.
C16_HeaderBeforeBody ==
    /\ [](driver = "main" =>
            /\ \A i \in 1..Len(created) :
                fs[created[i]].exists /\ fs[created[i]].hdr = 256
            /\ _current_path # None =>
                /\ Len(created) > 0
                /\ _current_path = created[Len(created)])
    /\ [][driver = "main" =>
            /\ \A p \in Paths : fs[p].exists => Extends(fs'[p], fs[p])
            /\ \A p \in Paths : (~fs[p].exists /\ fs'[p].exists) =>
                /\ _current_path = None
                /\ op' \in {"fill", "fill_raised"}
                /\ fs'[p].hdr = 256
                /\ fs'[p].body = Received
            /\ op' = "fill_raised" =>
                /\ pos' = pos
                /\ fs'[_current_path'].hdr = 256
                /\ fs'[_current_path'].body =
                     (IF _current_path = None THEN << >>
                      ELSE fs[_current_path].body)
         ]_vars

\* fill() was interrupted while waiting for data on a file that holds its
\* header and part of its body.
C16_Witness ==
    /\ op = "fill_raised"
    /\ _current_path # None
    /\ fs[_current_path].hdr = 256
    /\ Len(fs[_current_path].body) > 0
    /\ Len(fs[_current_path].body) < 15 * _file_len

\* The bodies of the files fill() has created, one after the other in the
\* order of their creation.
Bodies == Concat([i \in 1..Len(created) |-> fs[created[i]].body])

\* The bytes a step has added to the body of the file at p.
Written(p) ==
    SubSeq(fs'[p].body,
           (IF fs[p].exists THEN Len(fs[p].body) ELSE 0) + 1, Len(fs'[p].body))

\* C17: stream-to-disk conservation.  After any sequence of fill() calls the
\* bodies of the files created, in creation order, are exactly the bytes
\* received from the stream so far, in arrival order; and in each call the
\* bytes given to the decoder after the carry-over are the chunk written to
\* disk.
C17_StreamToDisk ==
    /\ [](driver = "main" => Bodies = Upto(pos))
    /\ [][op' = "fill" =>
            /\ Written(created'[Len(created')]) = Received
            /\ decoded' =
                 Packets(_carry_over \o Written(created'[Len(created')]))
         ]_vars

\* Twenty bytes have been received in calls of fill(): fifteen are the body
\* of the first file, five the body of the second.
C17_Witness ==
    /\ op = "fill"
    /\ pos = 20
    /\ Len(created) = 2
    /\ fs[created[1]].body = Upto(15)
    /\ fs[created[2]].body = Slice(stream, 15, 20)

\* The records of seq that carry the Encoder markers, by index.
EncoderAt(seq) == {i \in 1..Len(seq) : WellFormed(seq[i])}

\* The largest element of a non-empty set of integers.
Max(S) == CHOOSE x \in S : \A y \in S : y <= x

\* C18: record extraction within one pass.  Each fill() examines exactly
\* n = floor(length / 15) records of carry-over + chunk, record i being its
\* bytes [15 * i, 15 * i + 15) for i = 0..n-1, from the front and in that
\* order; the latest timestamp and state after the call are those of the
\* last record with the Encoder markers, or the earlier ones if there is
\* none; a chunk shorter than a record on an empty carry-over gives no
\* record.
C18_RecordExtraction ==
    [][op' = "fill" =>
        /\ Len(decoded') = Len(Buffer) \div 15
        /\ \A i \in 0..(Len(decoded') - 1) :
            decoded'[i + 1] = SubSeq(Buffer, 15 * i + 1, 15 * i + 15)
        /\ IF EncoderAt(decoded') = {}
           THEN ts_latest' = ts_latest /\ state_latest' = state_latest
           ELSE /\ ts_latest' = RecordTs(decoded'[Max(EncoderAt(decoded'))])
                /\ state_latest' = WordLE(decoded'[Max(EncoderAt(decoded'))], 10)
        /\ (_carry_over = << >> /\ Len(Received) < 15) => decoded' = << >>
      ]_vars

\* One pass of fill() has examined two records, both with the Encoder
\* markers, and the latest state is that of the second.
C18_Witness ==
    /\ op = "fill"
    /\ Len(decoded) = 2
    /\ decoded[1] = EncB
    /\ decoded[2] = EncA
    /\ ts_latest = [msb |-> 0, lsb |-> 1]
    /\ state_latest = 7

\* C19: connection state after close.  After close() the reader is not
\* connected, and a get_write that follows fails with the not-connected
\* error: it writes no file and does not go to the closed socket.  A second
\* close() changes nothing: after close() the socket is closed if it was
\* ever connected, and no file is current, which is all close() does.
C19_ClosedIsNotConnected ==
    /\ [](op = "close" =>
            /\ ~_connected
            /\ _current_path = None
            /\ sock \in {"new", "closed"})
    /\ [][(pc = "idle" /\ sock = "closed" /\ op' \in GetWriteCalled) =>
            /\ op' = "get_write_not_connected"
            /\ UNCHANGED <<pos, fs, sock, _connected, filler, gw, pc>>
         ]_vars

\* close() called twice leaves the state of the first call: on a closed
\* socket, or on one never connected, close() changes nothing but the
\* session, which it has cleared already.
CloseIdempotent ==
    [][(op = "close" /\ op' = "close") => UNCHANGED vars]_vars

====
